---- MODULE Spec2Model ----
(***************************************************************************)
(* Tic-Tac-Toe (src/app.js): the game state held in the DOMContentLoaded   *)
(* closure, the cell click handler and the Reset handler, each as one      *)
(* atomic action (JavaScript runs a handler to completion).                *)
(***************************************************************************)
EXTENDS Integers, Sequences, FiniteSets, TLC

\* ------------------------------------------------------------------ bounds
\* Games that may be finished in one session (score counters are unbounded
\* in the code; new moves stop being offered once this many games ended).
MaxGames == 2

\* Boards tried by the validateMove specification: cells 0..ValidateCells-1
\* take every value, the others are empty.
ValidateCells == 3

\* --------------------------------------------------------------- constants
\* Array(9).fill(null) and the loops `for (let i = 0; i < 9; i++)`.
NumCells == 9

Cells == 0 .. (NumCells - 1)

\* The value of an empty cell (JavaScript null).
Null == "null"

Players == {"X", "O"}

\* No cell: the value of lastIdx when the last handler was not a click.
NoIdx == NumCells

\* Predefined winning combinations (indices into cells), in source order.
wins ==
  << <<0, 1, 2>>, <<3, 4, 5>>, <<6, 7, 8>>,
     <<0, 3, 6>>, <<1, 4, 7>>, <<2, 5, 8>>,
     <<0, 4, 8>>, <<2, 4, 6>> >>

\* The reasons validateMove passes to showInvalidFeedback ("ok": it returned true).
Ok == "ok"
Busy == "move already processing"
GameOver == "game finished"

Occupied(mark) ==
  IF mark = "X" THEN "cell already occupied by X" ELSE "cell already occupied by O"

\* ------------------------------------------------------------------- state
VARIABLES
  cells,          \* the board model: Cells -> {Null, "X", "O"}
  currentPlayer,  \* whose turn it is
  finished,       \* whether the game has ended
  isProcessing,   \* the re-entrancy flag
  score,          \* [X, O, draws]: session totals
  text,           \* view: each cell button's textContent ("" when empty)
  disabled,       \* view: the cell buttons' disabled property (set for all at once)
  winCells,       \* view: the cells carrying class cell--win
  banner,         \* view: the result banner, [type, winner]; type "hidden" | "win" | "draw"
  statusText,     \* view: the player named by "Player _ to move"
  statusHidden,   \* view: statusEl.style.display = 'none'
  shown,          \* view: the numbers the scoreboard displays
  lastOp,         \* history: the last handler run, "init" | "click" | "reset"
  lastIdx,        \* history: the cell of the last click (NoIdx otherwise)
  lastReason,     \* history: what validateMove reported in the last click
  result,         \* history: what checkWin returned in the last accepted click
  lastMark,       \* history: the mark of the last accepted move of this game
  moves,          \* history: the accepted moves since the start or the last reset
  pre             \* history: the game state the last handler started from

model == <<cells, currentPlayer, finished, isProcessing, score>>
view == <<text, disabled, winCells, banner, statusText, statusHidden, shown>>
history == <<lastOp, lastIdx, lastReason, result, lastMark, moves, pre>>
vars == <<model, view, history>>

\* The game state a handler starts from, as the history variable pre keeps it.
Snapshot ==
  [cells |-> cells, currentPlayer |-> currentPlayer, finished |-> finished,
   isProcessing |-> isProcessing, score |-> score, lastMark |-> lastMark]

\* ---------------------------------------------------------------- checkWin
NoResult == [kind |-> "none", winner |-> "none", combo |-> <<>>]
DrawResult == [kind |-> "draw", winner |-> "none", combo |-> <<>>]
WinResult(w, combo) == [kind |-> "win", winner |-> w, combo |-> combo]

\* A plausible slip: the test forgets `cells[a] &&`, so three empty cells match.
ComboHoldsNoNullTest(b, combo) ==
  /\ b[combo[1]] = b[combo[2]]
  /\ b[combo[1]] = b[combo[3]]

\* cells[a] && cells[a] === cells[b] && cells[a] === cells[c]
ComboHolds(b, combo) ==
  /\ b[combo[1]] # Null
  /\ b[combo[1]] = b[combo[2]]
  /\ b[combo[1]] = b[combo[3]]

\* A plausible slip: the full-board test skips cell 0.
BoardFullSkippingFirst(b) == \A i \in Cells \ {0} : b[i] # Null

\* cells.every(Boolean)
BoardFull(b) == \A i \in Cells : b[i] # Null

\* The loop `for (const combo of wins)` from position k on, then the draw test.
RECURSIVE checkWinFrom(_, _)
checkWinFrom(b, k) ==
  IF k > Len(wins)
  THEN IF BoardFull(b) THEN DrawResult ELSE NoResult
  ELSE IF ComboHolds(b, wins[k])
       THEN WinResult(b[wins[k][1]], wins[k])
       ELSE checkWinFrom(b, k + 1)

\* A plausible slip: the combinations are scanned last to first.
RECURSIVE checkWinBackFrom(_, _)
checkWinBackFrom(b, k) ==
  IF k < 1
  THEN IF BoardFull(b) THEN DrawResult ELSE NoResult
  ELSE IF ComboHolds(b, wins[k])
       THEN WinResult(b[wins[k][1]], wins[k])
       ELSE checkWinBackFrom(b, k - 1)

checkWinReversed(b) == checkWinBackFrom(b, Len(wins))

\* A plausible slip: the loop over wins misses the first combination.
checkWinSkippingFirst(b) == checkWinFrom(b, 2)

\* A plausible slip: the full-board test comes before the loop over wins.
checkWinDrawFirst(b) == IF BoardFull(b) THEN DrawResult ELSE checkWinFrom(b, 1)

checkWin(b) == checkWinFrom(b, 1)

\* ------------------------------------------------------------ validateMove
\* A plausible slip: the occupied test comes before the finished test.
validateMoveOccupiedFirst(idx) ==
  IF isProcessing THEN Busy
  ELSE IF cells[idx] # Null THEN Occupied(cells[idx])
  ELSE IF finished THEN GameOver
  ELSE Ok

\* A plausible slip: the occupied test is missing.
validateMoveNoOccupied(idx) ==
  IF isProcessing THEN Busy
  ELSE IF finished THEN GameOver
  ELSE Ok

\* A plausible slip: the finished test is missing.
validateMoveNoFinished(idx) ==
  IF isProcessing THEN Busy
  ELSE IF cells[idx] # Null THEN Occupied(cells[idx])
  ELSE Ok

\* The checks in the order of the code; Ok stands for `return true`.
validateMove(idx) ==
  IF isProcessing THEN Busy
  ELSE IF finished THEN GameOver
  ELSE IF cells[idx] # Null THEN Occupied(cells[idx])
  ELSE Ok

\* ------------------------------------------------------- the click handler
\* A plausible slip: the mark written is always 'X'.
placeMarkAlwaysX(b, idx, p) == [b EXCEPT ![idx] = "X"]

\* cells[idx] = currentPlayer
placeMark(b, idx, p) == [b EXCEPT ![idx] = p]

\* A plausible slip: the toggle compares with the wrong mark and never flips X.
togglePlayerStuck(p) == IF p = "O" THEN "O" ELSE "X"

\* currentPlayer === 'X' ? 'O' : 'X'
togglePlayer(p) == IF p = "X" THEN "O" ELSE "X"

\* A plausible slip: a draw is counted for X as well.
addScoreDrawCountsX(s, res) ==
  IF res.kind = "win" THEN [s EXCEPT ![res.winner] = @ + 1]
  ELSE IF res.kind = "draw" THEN [s EXCEPT !.draws = @ + 1, !.X = @ + 1]
  ELSE s

\* score[result.winner]++ / score.draws++
addScore(s, res) ==
  IF res.kind = "win" THEN [s EXCEPT ![res.winner] = @ + 1]
  ELSE IF res.kind = "draw" THEN [s EXCEPT !.draws = @ + 1]
  ELSE s

\* resultBanner.style.display = 'none'
NoBanner == [type |-> "hidden", winner |-> "none"]

ComboSet(combo) == {combo[k] : k \in 1 .. Len(combo)}

\* A plausible slip: the flag is taken before validateMove, and the early
\* return leaves it set.
RejectedHoldingLock(idx, reason) ==
  /\ isProcessing' = TRUE
  /\ UNCHANGED <<cells, currentPlayer, finished, score, view>>
  /\ result' = NoResult
  /\ UNCHANGED <<lastMark, moves>>

\* validateMove returned false: showInvalidFeedback, then the early return.
Rejected(idx, reason) ==
  /\ UNCHANGED <<model, view>>
  /\ result' = NoResult
  /\ UNCHANGED <<lastMark, moves>>

\* A plausible slip: the handler returns without `isProcessing = false`, so
\* the value set by `isProcessing = true` stays.
ReleaseLockForgotten == isProcessing' = TRUE

\* isProcessing = false, the last statement of the handler.
ReleaseLock == isProcessing' = FALSE

\* validateMove returned true: the rest of the handler.
Accepted(idx) ==
  LET board == placeMark(cells, idx, currentPlayer)
      res == checkWin(board)
  IN  /\ cells' = board
      /\ text' = [text EXCEPT ![idx] = currentPlayer]
      /\ result' = res
      /\ lastMark' = board[idx]
      /\ moves' = moves + 1
      /\ IF res.kind # "none"
         THEN /\ score' = addScore(score, res)
              /\ winCells' = IF res.kind = "win"
                             THEN winCells \cup ComboSet(res.combo)
                             ELSE winCells
              /\ banner' = [type |-> res.kind, winner |-> res.winner]
              /\ statusHidden' = TRUE
              /\ finished' = TRUE
              /\ disabled' = TRUE
              /\ shown' = score'
              /\ UNCHANGED <<currentPlayer, statusText>>
         ELSE /\ currentPlayer' = togglePlayer(currentPlayer)
              /\ statusText' = currentPlayer'
              /\ UNCHANGED <<score, winCells, banner, statusHidden, finished,
                             disabled, shown>>
      /\ ReleaseLock

\* New games are offered only while fewer than MaxGames have ended.
GamesPlayed == score.X + score.O + score.draws

Click(idx) ==
  /\ finished \/ GamesPlayed < MaxGames
  /\ lastOp' = "click"
  /\ lastIdx' = idx
  /\ lastReason' = validateMove(idx)
  /\ pre' = Snapshot
  /\ IF validateMove(idx) # Ok THEN Rejected(idx, validateMove(idx)) ELSE Accepted(idx)

\* ------------------------------------------------------- the reset handler
EmptyBoard == [i \in Cells |-> Null]

\* A plausible slip: the reset also clears the session totals.
ResetGameClearingScore ==
  /\ cells' = EmptyBoard
  /\ finished' = FALSE
  /\ isProcessing' = FALSE
  /\ currentPlayer' = "X"
  /\ score' = [X |-> 0, O |-> 0, draws |-> 0]

\* A plausible slip: the reset forgets `currentPlayer = 'X'`.
ResetGameKeepingPlayer ==
  /\ cells' = EmptyBoard
  /\ finished' = FALSE
  /\ isProcessing' = FALSE
  /\ UNCHANGED <<currentPlayer, score>>

\* A plausible slip: the reset forgets `finished = false`.
ResetGameKeepingFinished ==
  /\ cells' = EmptyBoard
  /\ isProcessing' = FALSE
  /\ currentPlayer' = "X"
  /\ UNCHANGED <<finished, score>>

\* The game state after the reset handler; score is not assigned.
ResetGame ==
  /\ cells' = EmptyBoard
  /\ finished' = FALSE
  /\ isProcessing' = FALSE
  /\ currentPlayer' = "X"
  /\ UNCHANGED score

\* A plausible slip: the reset forgets setCellsDisabled(false).
ResetViewKeepingDisabled ==
  /\ text' = [i \in Cells |-> ""]
  /\ winCells' = {}
  /\ banner' = NoBanner
  /\ statusHidden' = FALSE
  /\ statusText' = currentPlayer'
  /\ UNCHANGED <<disabled, shown>>

\* The view after the reset handler: texts and classes cleared, buttons
\* enabled, banner hidden, status shown and rewritten (finished is false).
ResetView ==
  /\ text' = [i \in Cells |-> ""]
  /\ winCells' = {}
  /\ disabled' = FALSE
  /\ banner' = NoBanner
  /\ statusHidden' = FALSE
  /\ statusText' = currentPlayer'
  /\ UNCHANGED shown

Reset ==
  /\ ResetGame
  /\ ResetView
  /\ lastOp' = "reset"
  /\ lastIdx' = NoIdx
  /\ lastReason' = Ok
  /\ result' = NoResult
  /\ lastMark' = "none"
  /\ moves' = 0
  /\ pre' = Snapshot

\* ------------------------------------------------------------ specification
ZeroScore == [X |-> 0, O |-> 0, draws |-> 0]

Init ==
  /\ cells = EmptyBoard
  /\ currentPlayer = "X"
  /\ finished = FALSE
  /\ isProcessing = FALSE
  /\ score = ZeroScore
  /\ text = [i \in Cells |-> ""]
  /\ disabled = FALSE
  /\ winCells = {}
  /\ banner = NoBanner
  /\ statusText = "X"
  /\ statusHidden = FALSE
  /\ shown = ZeroScore
  /\ lastOp = "init"
  /\ lastIdx = NoIdx
  /\ lastReason = Ok
  /\ result = NoResult
  /\ lastMark = "none"
  /\ moves = 0
  /\ pre = [cells |-> EmptyBoard, currentPlayer |-> "X", finished |-> FALSE,
            isProcessing |-> FALSE, score |-> ZeroScore, lastMark |-> "none"]

Next ==
  \/ \E idx \in Cells : Click(idx)
  \/ Reset

Spec == Init /\ [][Next]_vars

\* The players keep clicking empty cells: a click on an empty cell of an
\* unfinished game is taken whenever it stays possible.
ClickEmpty == \E idx \in Cells : ~finished /\ cells[idx] = Null /\ Click(idx)

\* One game: the clicks that follow the start, with no reset in between.
NextGame == \E idx \in Cells : Click(idx)

SpecGame == Init /\ [][NextGame]_vars /\ WF_vars(ClickEmpty)

\* ------------------------------------------ validateMove on drawn inputs
\* validateMove as a function of (isProcessing, finished, cells, idx): the
\* inputs are drawn from bounded sets and the action applies it.
ValidateBoards ==
  {b \in [Cells -> {Null, "X", "O"}] : \A i \in Cells : i >= ValidateCells => b[i] = Null}

InitV ==
  /\ cells \in ValidateBoards
  /\ currentPlayer \in Players
  /\ finished \in BOOLEAN
  /\ isProcessing \in BOOLEAN
  /\ score = ZeroScore
  /\ text = [i \in Cells |-> IF cells[i] = Null THEN "" ELSE cells[i]]
  /\ disabled = finished
  /\ winCells = {}
  /\ banner = NoBanner
  /\ statusText = currentPlayer
  /\ statusHidden = finished
  /\ shown = ZeroScore
  /\ lastOp = "init"
  /\ lastIdx = NoIdx
  /\ lastReason = Ok
  /\ result = NoResult
  /\ lastMark = "none"
  /\ moves = 0
  /\ pre = [cells |-> cells, currentPlayer |-> currentPlayer, finished |-> finished,
            isProcessing |-> isProcessing, score |-> score, lastMark |-> lastMark]

\* One call of validateMove(idx); lastReason records what it reported.
Validate(idx) ==
  /\ lastOp' = "validateMove"
  /\ lastIdx' = idx
  /\ lastReason' = validateMove(idx)
  /\ pre' = Snapshot
  /\ UNCHANGED <<model, view, result, lastMark, moves>>

NextV == \E idx \in Cells : Validate(idx)

SpecV == InitV /\ [][NextV]_vars

\* ================================================================== claims
\* What the claims speak of, stated apart from the definitions above.
Opponent(p) == IF p = "X" THEN "O" ELSE "X"

NonEmpty(b) == {i \in Cells : b[i] # Null}

\* Rows top to bottom, columns left to right, then the diagonals [0,4,8], [2,4,6].
TripleOrder ==
  << <<0, 1, 2>>, <<3, 4, 5>>, <<6, 7, 8>>,
     <<0, 3, 6>>, <<1, 4, 7>>, <<2, 5, 8>>,
     <<0, 4, 8>>, <<2, 4, 6>> >>

TripleOf(b, k, m) == \A j \in DOMAIN TripleOrder[k] : b[TripleOrder[k][j]] = m

TriplesOf(b, m) == {k \in DOMAIN TripleOrder : TripleOf(b, k, m)}

HasTriple(b) == \E m \in Players : TriplesOf(b, m) # {}

FirstTripleOf(b, m) ==
  TripleOrder[CHOOSE k \in TriplesOf(b, m) : \A j \in TriplesOf(b, m) : k <= j]

\* The last handler was a click that passed all three checks of validateMove.
AcceptedClick ==
  /\ lastOp = "click"
  /\ ~pre.isProcessing
  /\ ~pre.finished
  /\ pre.cells[lastIdx] = Null

\* The last handler was a click that failed one of the checks.
RejectedClick ==
  /\ lastOp = "click"
  /\ (pre.isProcessing \/ pre.finished \/ pre.cells[lastIdx] # Null)

\* C1: an accepted move changes exactly the clicked cell, from empty to the
\* current player's mark, and leaves the other eight cells as they were; no
\* handler but the reset changes a non-empty cell.
C1_AcceptedMoveWritesOneCell ==
  /\ AcceptedClick =>
       /\ cells[lastIdx] = pre.currentPlayer
       /\ \A i \in Cells \ {lastIdx} : cells[i] = pre.cells[i]
  /\ lastOp # "reset" =>
       \A i \in Cells : pre.cells[i] # Null => cells[i] = pre.cells[i]

C1_Witness ==
  /\ AcceptedClick
  /\ pre.currentPlayer = "O"
  /\ cells[lastIdx] = "O"
  /\ Cardinality(NonEmpty(cells)) = 4

\* C2: within one game the marks of successive accepted moves alternate
\* X, O, X, O, ..., the first accepted move of every game places X, and a
\* rejected move changes neither the turn nor the last mark placed.
C2_MarksAlternateFromX ==
  /\ AcceptedClick =>
       cells[lastIdx] = IF pre.lastMark = "none" THEN "X" ELSE Opponent(pre.lastMark)
  /\ RejectedClick =>
       /\ currentPlayer = pre.currentPlayer
       /\ lastMark = pre.lastMark

C2_Witness ==
  /\ AcceptedClick
  /\ pre.lastMark = "none"
  /\ cells[lastIdx] = "X"
  /\ score.O = 1

\* C3: an accepted move that leaves a row, column or diagonal with three
\* equal marks ends the game as a win of the mover, and the triple reported
\* is the first one in the order rows, columns, diagonals that the mover holds.
C3_WinEndsGameWithFirstTriple ==
  (AcceptedClick /\ HasTriple(cells)) =>
    /\ finished
    /\ result.kind = "win"
    /\ result.winner = pre.currentPlayer
    /\ result.combo = FirstTripleOf(cells, pre.currentPlayer)
    /\ banner = [type |-> "win", winner |-> pre.currentPlayer]
    /\ winCells = ComboSet(FirstTripleOf(cells, pre.currentPlayer))

C3_Witness ==
  /\ AcceptedClick
  /\ Cardinality(TriplesOf(cells, "X")) = 2
  /\ result.combo = <<0, 1, 2>>
  /\ lastIdx = 2

\* C4: an accepted move that fills the ninth cell with no triple of equal
\* marks ends the game as a draw (draws + 1, win counters unchanged), and a
\* draw is never declared while a cell is empty.
C4_FullBoardWithoutTripleIsDraw ==
  /\ (AcceptedClick /\ NonEmpty(cells) = Cells /\ ~HasTriple(cells)) =>
       /\ finished
       /\ result.kind = "draw"
       /\ banner.type = "draw"
       /\ score.draws = pre.score.draws + 1
       /\ score.X = pre.score.X
       /\ score.O = pre.score.O
  /\ (result.kind = "draw" \/ banner.type = "draw" \/ score.draws > pre.score.draws) =>
       NonEmpty(cells) = Cells

C4_Witness ==
  /\ AcceptedClick
  /\ result.kind = "draw"
  /\ score.draws = 1
  /\ lastIdx = 8

\* C5: a move that ends the game adds 1 to exactly one counter (the
\* winner's on a win, draws on a draw); any other move, a rejected move and
\* a reset change no counter. After 0(X),3(O),1(X),4(O),2(X) in a fresh
\* session X has won with [0,1,2] and the score is X=1, O=0, draws=0.
C5_Board03142 ==
  [i \in Cells |-> IF i \in {0, 1, 2} THEN "X" ELSE IF i \in {3, 4} THEN "O" ELSE Null]

C5_EndingMoveAddsOneToOneCounter ==
  /\ (AcceptedClick /\ finished) =>
       score = IF TriplesOf(cells, pre.currentPlayer) # {}
               THEN [pre.score EXCEPT ![pre.currentPlayer] = @ + 1]
               ELSE [pre.score EXCEPT !.draws = @ + 1]
  /\ ((AcceptedClick /\ ~finished) \/ RejectedClick \/ lastOp = "reset") =>
       score = pre.score
  /\ (AcceptedClick /\ cells = C5_Board03142 /\ lastIdx = 2 /\ pre.score = ZeroScore) =>
       /\ result = WinResult("X", <<0, 1, 2>>)
       /\ score = [X |-> 1, O |-> 0, draws |-> 0]

C5_Witness ==
  /\ AcceptedClick
  /\ cells = C5_Board03142
  /\ lastIdx = 2
  /\ pre.score = ZeroScore
  /\ score.X = 1

\* C6: no handler decreases a score counter, and the reset leaves all three
\* counters as they were.
C6_ScoreNeverDecreases ==
  /\ score.X >= pre.score.X
  /\ score.O >= pre.score.O
  /\ score.draws >= pre.score.draws
  /\ lastOp = "reset" => score = pre.score

C6_Witness ==
  /\ lastOp = "reset"
  /\ pre.finished
  /\ score.X = 1
  /\ score.draws = 1

\* C7: from every state the reset gives nine empty cells, current player X,
\* finished false and the processing flag cleared.
C7_ResetRestoresStart ==
  lastOp = "reset" =>
    /\ \A i \in Cells : cells[i] = Null
    /\ currentPlayer = "X"
    /\ ~finished
    /\ ~isProcessing

C7_Witness ==
  /\ lastOp = "reset"
  /\ pre.finished
  /\ pre.currentPlayer = "O"
  /\ NonEmpty(pre.cells) # {}
  /\ currentPlayer = "X"

\* C8: validateMove reports the first failing check in the order flag held,
\* game finished, cell occupied (naming the occupying mark), and accepts
\* exactly when all three pass.
C8_FirstFailingCheckWins ==
  lastOp = "validateMove" =>
    /\ pre.isProcessing => lastReason = "move already processing"
    /\ (~pre.isProcessing /\ pre.finished) => lastReason = "game finished"
    /\ (~pre.isProcessing /\ ~pre.finished /\ pre.cells[lastIdx] = "X") =>
         lastReason = "cell already occupied by X"
    /\ (~pre.isProcessing /\ ~pre.finished /\ pre.cells[lastIdx] = "O") =>
         lastReason = "cell already occupied by O"
    /\ lastReason = "ok" <=>
         (~pre.isProcessing /\ ~pre.finished /\ pre.cells[lastIdx] = Null)

C8_Witness ==
  /\ lastOp = "validateMove"
  /\ ~pre.isProcessing
  /\ pre.finished
  /\ pre.cells[lastIdx] = "X"
  /\ lastReason = "game finished"

\* C9: a rejected move leaves the board, the current player, the finished
\* flag, the processing flag and the three counters as they were.
C9_RejectedMoveChangesNothing ==
  RejectedClick =>
    /\ cells = pre.cells
    /\ currentPlayer = pre.currentPlayer
    /\ finished = pre.finished
    /\ isProcessing = pre.isProcessing
    /\ score = pre.score

C9_Witness ==
  /\ RejectedClick
  /\ ~pre.finished
  /\ pre.cells[lastIdx] = "X"
  /\ pre.currentPlayer = "O"
  /\ lastReason = "cell already occupied by X"

\* C10: once the game is finished a click changes no cell, not the current
\* player and not the score, finished stays true, and only the reset takes
\* the game from finished back to in progress.
C10_FinishedBlocksMovesUntilReset ==
  /\ (lastOp = "click" /\ pre.finished) =>
       /\ cells = pre.cells
       /\ currentPlayer = pre.currentPlayer
       /\ score = pre.score
       /\ finished
  /\ (pre.finished /\ ~finished) => lastOp = "reset"

C10_Witness ==
  /\ lastOp = "click"
  /\ pre.finished
  /\ pre.cells[lastIdx] = Null
  /\ finished
  /\ lastReason = "game finished"

\* C11: the processing flag is released before every click handler returns
\* (move accepted and game continues, move accepted and game ends, move
\* rejected), so it is false in every state between two handlers.
C11_LockFreeBetweenHandlers == isProcessing = FALSE

C11_Witness ==
  /\ AcceptedClick
  /\ finished
  /\ result.kind = "win"
  /\ ~isProcessing
  /\ score.X + score.O = 2

\* The triples of the board that hold three equal marks, by position in the order.
HeldTriples(b) == TriplesOf(b, "X") \cup TriplesOf(b, "O")

\* C12 as stated: in every board reachable by legal play at most one of the
\* 8 triples holds three equal marks.
C12_AtMostOneTriple == Cardinality(HeldTriples(cells)) <= 1

\* C12 as amended: in every board reachable by legal play at most two
\* triples hold three equal marks; a move that leaves two has completed both
\* at once, lies on both, and the triple reported is the earlier one in the
\* order of the checks, so that the order decides what is reported.
C12_AtMostTwoTriplesThroughLastMove ==
  /\ Cardinality(HeldTriples(cells)) <= 2
  /\ (AcceptedClick /\ Cardinality(HeldTriples(cells)) = 2) =>
       /\ HeldTriples(pre.cells) = {}
       /\ \A k \in HeldTriples(cells) :
            /\ lastIdx \in {TripleOrder[k][j] : j \in DOMAIN TripleOrder[k]}
            /\ result.combo = TripleOrder[k] \/ \E j \in HeldTriples(cells) : j < k

C12_Witness ==
  /\ AcceptedClick
  /\ HeldTriples(cells) = {1, 7}
  /\ lastIdx = 0
  /\ result.combo = <<0, 1, 2>>

\* C13 as stated: after each accepted move, a move that ends the game
\* included, the current player is the opposite of the mover; the current
\* player is X at the start and after every reset.
C13_TurnFlipsAfterEveryAcceptedMove ==
  /\ AcceptedClick => currentPlayer = Opponent(pre.currentPlayer)
  /\ lastOp \in {"init", "reset"} => currentPlayer = "X"

\* C13 as amended: after an accepted move that does not end the game the
\* current player is the opposite of the mover; after an accepted move that
\* ends the game the current player is still the mover; the current player
\* is X at the start and after every reset.
C13_TurnFlipsUnlessGameEnds ==
  /\ (AcceptedClick /\ ~finished) => currentPlayer = Opponent(pre.currentPlayer)
  /\ (AcceptedClick /\ finished) => currentPlayer = pre.currentPlayer
  /\ lastOp \in {"init", "reset"} => currentPlayer = "X"

C13_Witness ==
  /\ AcceptedClick
  /\ finished
  /\ result.kind = "win"
  /\ pre.currentPlayer = "O"
  /\ currentPlayer = "O"

\* C14: when the move that fills the ninth cell also completes a triple the
\* outcome is a win of the mover and not a draw: the mover's counter grows
\* by 1 and draws is unchanged.
C14_NinthCellTripleIsWin ==
  (AcceptedClick /\ NonEmpty(cells) = Cells /\ TriplesOf(cells, pre.currentPlayer) # {}) =>
    /\ finished
    /\ result.kind = "win"
    /\ result.winner = pre.currentPlayer
    /\ banner = [type |-> "win", winner |-> pre.currentPlayer]
    /\ score[pre.currentPlayer] = pre.score[pre.currentPlayer] + 1
    /\ score.draws = pre.score.draws

C14_Witness ==
  /\ AcceptedClick
  /\ NonEmpty(cells) = Cells
  /\ TriplesOf(cells, "X") # {}
  /\ score = [X |-> 1, O |-> 0, draws |-> 0]
  /\ banner.type = "win"

\* C15: isProcessing is false at the entry of every click handler, so
\* validateMove never reports "move already processing" in a click.
C15_BusyNeverReported ==
  lastOp = "click" =>
    /\ ~pre.isProcessing
    /\ lastReason # "move already processing"

C15_Witness ==
  /\ lastOp = "click"
  /\ ~pre.isProcessing
  /\ pre.lastMark = "O"
  /\ pre.cells[lastIdx] = "O"
  /\ lastReason = "cell already occupied by O"

\* C16: after every handler the view matches the model: each button's text
\* is the mark of its cell (empty for an empty cell), the buttons are
\* disabled exactly when finished is true, and the scoreboard shows the
\* score counters.
C16_ViewMatchesModel ==
  /\ \A i \in Cells : text[i] = IF cells[i] = Null THEN "" ELSE cells[i]
  /\ disabled = finished
  /\ shown = score

C16_Witness ==
  /\ lastOp = "reset"
  /\ pre.finished
  /\ ~disabled
  /\ shown = [X |-> 1, O |-> 0, draws |-> 1]
  /\ \A i \in Cells : text[i] = ""

\* C17: between handlers, finished is true exactly when the board holds a
\* triple of three equal marks or has no empty cell.
C17_FinishedIffTerminalBoard ==
  finished <=> (HasTriple(cells) \/ NonEmpty(cells) = Cells)

C17_Witness ==
  /\ AcceptedClick
  /\ ~finished
  /\ Cardinality(NonEmpty(cells)) = 8
  /\ score.draws = 1

\* C18: the number of X marks minus the number of O marks is 0 or 1, and
\* while the game is in progress the current player is X exactly when the
\* counts are equal and O exactly when X has one more.
MarksOf(b, m) == Cardinality({i \in Cells : b[i] = m})

C18_MarkCountsFollowTurn ==
  /\ MarksOf(cells, "X") - MarksOf(cells, "O") \in {0, 1}
  /\ ~finished =>
       /\ currentPlayer = "X" <=> MarksOf(cells, "X") = MarksOf(cells, "O")
       /\ currentPlayer = "O" <=> MarksOf(cells, "X") = MarksOf(cells, "O") + 1

C18_Witness ==
  /\ ~finished
  /\ currentPlayer = "O"
  /\ MarksOf(cells, "X") = 4
  /\ MarksOf(cells, "O") = 3
  /\ RejectedClick

\* C19: X and O never both hold a complete triple, and every win is
\* credited to the player who made the last accepted move, never to the
\* opponent.
C19_OneWinnerTheLastMover ==
  /\ ~(TriplesOf(cells, "X") # {} /\ TriplesOf(cells, "O") # {})
  /\ (AcceptedClick /\ HasTriple(cells)) =>
       /\ TriplesOf(cells, Opponent(pre.currentPlayer)) = {}
       /\ result.winner = pre.currentPlayer
       /\ banner.winner = pre.currentPlayer
       /\ score[pre.currentPlayer] = pre.score[pre.currentPlayer] + 1
       /\ score[Opponent(pre.currentPlayer)] = pre.score[Opponent(pre.currentPlayer)]

C19_Witness ==
  /\ AcceptedClick
  /\ TriplesOf(cells, "O") # {}
  /\ result.winner = "O"
  /\ MarksOf(cells, "X") = 4
  /\ score = [X |-> 1, O |-> 1, draws |-> 0]

\* C20: every game terminates: with no reset in between at most 9 moves are
\* accepted, the game is finished no later than the 9th accepted move and
\* not before the 5th; if the players keep clicking empty cells the game
\* reaches finished and stays there.
C20_GameLength ==
  /\ moves <= 9
  /\ moves = Cardinality(NonEmpty(cells))
  /\ moves = 9 => finished
  /\ finished => moves >= 5

C20_EveryGameTerminates ==
  /\ []C20_GameLength
  /\ <>[]finished

C20_Witness ==
  /\ AcceptedClick
  /\ finished
  /\ moves = 5
  /\ result.kind = "win"

====
